---- MODULE Spec2Model ----
(***************************************************************************)
(* Model of the signed REST client of src/src/lib/index.js (function       *)
(* Client): argument validation, request signing (buildConfig), dispatch   *)
(* through axios and the promise chain .then(callback).catch(handler).     *)
(*                                                                         *)
(* Strings that the code inspects or concatenates (endpoint, method, JSON  *)
(* text, decimal timestamp) are sequences of one-character strings.        *)
(***************************************************************************)
EXTENDS Integers, Sequences, FiniteSets, TLC

VARIABLES client, now, calls

vars == <<client, now, calls>>

(***************************************************************************)
(* Bounds of the model.                                                    *)
(***************************************************************************)
\* dispatches made on the client in the wide-argument specification Spec
MaxCalls == 1
\* dispatches made on the client in the concurrent specification SpecConc
MaxInFlight == 2
\* number of half-second steps the wall clock takes
MaxTicks == 1

(***************************************************************************)
(* JavaScript values handed to the public operations.                      *)
(*   t : the kind of value, n : a number's value (1/0 for a boolean),      *)
(*   s : a string's characters, e : the entries of an object or array,     *)
(*   each entry [k |-> key characters, v |-> string value characters].     *)
(***************************************************************************)
JsValue(t, n, s, e) == [t |-> t, n |-> n, s |-> s, e |-> e]

Undefined == JsValue("undefined", 0, <<>>, <<>>)
Null == JsValue("null", 0, <<>>, <<>>)
Num(n) == JsValue("number", n, <<>>, <<>>)
Bool(b) == JsValue("boolean", IF b THEN 1 ELSE 0, <<>>, <<>>)
Str(s) == JsValue("string", 0, s, <<>>)
Obj(e) == JsValue("object", 0, <<>>, e)
Arr(e) == JsValue("array", 0, <<>>, e)
Fn == JsValue("function", 0, <<>>, <<>>)

\* typeof v
TypeOf(v) ==
  CASE v.t \in {"null", "object", "array"} -> "object"
    [] OTHER -> v.t

\* ToBoolean(v), the truthiness that !v negates
Truthy(v) ==
  CASE v.t \in {"undefined", "null"} -> FALSE
    [] v.t = "number" -> v.n # 0
    [] v.t = "boolean" -> v.n = 1
    [] v.t = "string" -> v.s # <<>>
    [] OTHER -> TRUE

\* the characters of the decimal numeral of a natural number
RECURSIVE Decimal(_)
Decimal(n) ==
  LET digit == <<"0", "1", "2", "3", "4", "5", "6", "7", "8", "9">>
  IN  IF n < 10 THEN <<digit[n + 1]>>
      ELSE Decimal(n \div 10) \o <<digit[(n % 10) + 1]>>

\* one character of String.prototype.toUpperCase
UpperChar(c) ==
  CASE c = "g" -> "G" [] c = "e" -> "E" [] c = "t" -> "T"
    [] c = "p" -> "P" [] c = "o" -> "O" [] c = "s" -> "S"
    [] c = "u" -> "U" [] c = "d" -> "D" [] c = "l" -> "L"
    [] OTHER -> c

\* s.toUpperCase()
ToUpperCase(s) == [i \in 1..Len(s) |-> UpperChar(s[i])]

\* s.substring(from, to), 0-based, end exclusive, clamped to the string
Substring(s, from, to) ==
  LET hi == IF to > Len(s) THEN Len(s) ELSE to
  IN  SubSeq(s, from + 1, hi)

\* the JSON text of a string whose characters need no escaping
Quote(s) == <<"\"">> \o s \o <<"\"">>

\* the comma-separated members of an object (keyed) or an array (not keyed)
RECURSIVE Members(_, _)
Members(e, keyed) ==
  IF e = <<>> THEN <<>>
  ELSE LET m == IF keyed THEN Quote(e[1].k) \o <<":">> \o Quote(e[1].v)
                 ELSE Quote(e[1].v)
       IN  IF Len(e) = 1 THEN m
           ELSE m \o <<",">> \o Members(Tail(e), keyed)

\* JSON.stringify(v): a string value, or undefined where there is no JSON text
JSON_stringify(v) ==
  CASE v.t = "null" -> Str(<<"n", "u", "l", "l">>)
    [] v.t = "number" -> Str(Decimal(v.n))
    [] v.t = "boolean" ->
         Str(IF v.n = 1 THEN <<"t", "r", "u", "e">> ELSE <<"f", "a", "l", "s", "e">>)
    [] v.t = "string" -> Str(Quote(v.s))
    [] v.t = "object" -> Str(<<"{">> \o Members(v.e, TRUE) \o <<"}">>)
    [] v.t = "array" -> Str(<<"[">> \o Members(v.e, FALSE) \o <<"]">>)
    [] OTHER -> Undefined

\* ToString(v) as applied by "string + v"
ToStringJs(v) ==
  CASE v.t = "string" -> v.s
    [] v.t = "undefined" -> <<"u", "n", "d", "e", "f", "i", "n", "e", "d">>
    [] v.t = "null" -> <<"n", "u", "l", "l">>
    [] v.t = "number" -> Decimal(v.n)
    [] v.t = "boolean" ->
         IF v.n = 1 THEN <<"t", "r", "u", "e">> ELSE <<"f", "a", "l", "s", "e">>
    [] OTHER -> <<"[", "o", "b", "j", "e", "c", "t", "]">>

\* the digest crypto.createHmac('sha256', key).update(msg).digest('hex'):
\* an opaque value determined by the key and the message, and by nothing else
HmacSha256Hex(key, msg) == <<"hmac-sha256-hex", key, msg>>

(***************************************************************************)
(* Responses of the transport, as handed to the caller's callback:         *)
(* an axios response object (status and parsed body) or undefined.         *)
(***************************************************************************)
Response(status, data) == [t |-> "response", status |-> status, data |-> data]

NoResponse == [t |-> "undefined", status |-> 0, data |-> ""]

\* what the promise returned by axios(config) can settle with: a response
\* (2xx), an error that carries the server's response (non-2xx), or an error
\* without one (no answer from the network)
Outcomes ==
  { [state |-> "fulfilled", response |-> Response(200, "{ok:true}")],
    [state |-> "rejected", response |-> Response(401, "{denied}")],
    [state |-> "rejected", response |-> NoResponse] }

(***************************************************************************)
(* What a dispatch does that the outside can observe, in order: a line on  *)
(* the console, a call of the transport, an invocation of the callback.    *)
(***************************************************************************)
LogEvent(text, arg) == [ev |-> "log", text |-> text, arg |-> arg, val |-> NoResponse]

AxiosEvent == [ev |-> "axios", text |-> "", arg |-> <<>>, val |-> NoResponse]

CallbackEvent(val) == [ev |-> "callback", text |-> "", arg |-> <<>>, val |-> val]

(***************************************************************************)
(* The method names the public operations pass to sendRequest.             *)
(***************************************************************************)
M_get == <<"g", "e", "t">>
M_post == <<"p", "o", "s", "t">>
M_put == <<"p", "u", "t">>
M_delete == <<"d", "e", "l", "e", "t", "e">>

(***************************************************************************)
(* function Client(key, secret): the fields the constructor sets.          *)
(***************************************************************************)
Client(key, secret) ==
  [ key |-> key,
    secret |-> secret,
    clientVersion |-> "0.0.1",
    clientName |-> "nodejs-merchant-sdk",
    apiVersion |-> "v1" ]

\* validateEndpoint without the test of the first character
validateEndpoint_AnyString(endpoint) == TypeOf(endpoint) = "string"

\* validateEndpoint(endpoint)
validateEndpoint(endpoint) ==
  TypeOf(endpoint) = "string" /\ Substring(endpoint.s, 0, 1) = <<"/">>

\* validateParams(params)
validateParams(params) ==
  IF TypeOf(params) = "object" THEN TRUE ELSE ~Truthy(params)

\* validateCallback(callback)
validateCallback(callback) == TypeOf(callback) = "function"

\* validateArgs(method, endpoint, params, callback): the result and the lines
\* it logs
validateArgs(method, endpoint, params, callback) ==
  IF ~validateEndpoint(endpoint)
    THEN [ok |-> FALSE, log |-> <<LogEvent("Invalid endpoint given to # method.", method)>>]
  ELSE IF ~validateParams(params)
    THEN [ok |-> FALSE, log |-> <<LogEvent("Invalid params given to # method.", method)>>]
  ELSE IF ~validateCallback(callback)
    THEN [ok |-> FALSE, log |-> <<LogEvent("Invalid callback given to # method.", method)>>]
  ELSE [ok |-> TRUE, log |-> <<>>]

\* Object.assign(target, source): the keys of source override those of target
ObjectAssign(target, source) ==
  [k \in (DOMAIN target) \cup (DOMAIN source) |->
     IF k \in DOMAIN source THEN source[k] ELSE target[k]]

\* Date.now() / 1000 | 0 for a clock reading in milliseconds (non-negative and
\* below 2^31 seconds, where | 0 only drops the fraction)
Timestamp(nowMs) == nowMs \div 1000

\* SignedText with the method left in lower case
SignedText_LowerCase(extras, timestamp) ==
  ToStringJs(extras.url) \o Decimal(timestamp) \o extras.method
    \o (IF extras.method = M_get THEN <<>> ELSE ToStringJs(JSON_stringify(extras.data)))

\* SignedText with the query parameters of a GET signed as if they were a body
SignedText_SignsQuery(extras, timestamp) ==
  ToStringJs(extras.url) \o Decimal(timestamp) \o ToUpperCase(extras.method)
    \o ToStringJs(JSON_stringify(IF extras.method = M_get THEN extras.params
                                                          ELSE extras.data))

\* SignedText with nothing signed for a body that is null or undefined
SignedText_EmptyWhenNoData(extras, timestamp) ==
  ToStringJs(extras.url) \o Decimal(timestamp) \o ToUpperCase(extras.method)
    \o (IF extras.method = M_get \/ extras.data.t \in {"null", "undefined"}
          THEN <<>> ELSE ToStringJs(JSON_stringify(extras.data)))

\* the string the signature is computed over
SignedText(extras, timestamp) ==
  ToStringJs(extras.url) \o Decimal(timestamp) \o ToUpperCase(extras.method)
    \o (IF extras.method = M_get THEN <<>> ELSE ToStringJs(JSON_stringify(extras.data)))

\* buildConfig with the clock reading in milliseconds sent as the timestamp
buildConfig_HeaderMillis(self, nowMs, extras) ==
  LET timestamp == Timestamp(nowMs)
      signature == HmacSha256Hex(self.secret, SignedText(extras, timestamp))
  IN  ObjectAssign(
        [ baseURL |-> "https://www.coinqvest.com/api/" \o self.apiVersion \o "/",
          responseType |-> "json",
          responseEncoding |-> "utf8",
          headers |->
            [ UserAgent |-> self.clientName \o " " \o self.clientVersion,
              Accept |-> "application/json",
              XDigestKey |-> self.key,
              XDigestSignature |-> signature,
              XDigestTimestamp |-> nowMs ] ],
        extras)

\* buildConfig with the secret sent where the key belongs
buildConfig_SecretAsKey(self, nowMs, extras) ==
  LET timestamp == Timestamp(nowMs)
      signature == HmacSha256Hex(self.secret, SignedText(extras, timestamp))
  IN  ObjectAssign(
        [ baseURL |-> "https://www.coinqvest.com/api/" \o self.apiVersion \o "/",
          responseType |-> "json",
          responseEncoding |-> "utf8",
          headers |->
            [ UserAgent |-> self.clientName \o " " \o self.clientVersion,
              Accept |-> "application/json",
              XDigestKey |-> self.secret,
              XDigestSignature |-> signature,
              XDigestTimestamp |-> timestamp ] ],
        extras)

\* buildConfig(extras), with this = self and Date.now() = nowMs
buildConfig(self, nowMs, extras) ==
  LET timestamp == Timestamp(nowMs)
      signature == HmacSha256Hex(self.secret, SignedText(extras, timestamp))
  IN  ObjectAssign(
        [ baseURL |-> "https://www.coinqvest.com/api/" \o self.apiVersion \o "/",
          responseType |-> "json",
          responseEncoding |-> "utf8",
          headers |->
            [ UserAgent |-> self.clientName \o " " \o self.clientVersion,
              Accept |-> "application/json",
              XDigestKey |-> self.key,
              XDigestSignature |-> signature,
              XDigestTimestamp |-> timestamp ] ],
        extras)

\* Extras with the params of a DELETE sent as query parameters, like a GET's
Extras_DeleteAsQuery(method, endpoint, params) ==
  [ method |-> method,
    url |-> endpoint,
    params |-> IF method \in {M_get, M_delete} THEN params ELSE Null,
    data |-> IF method \in {M_get, M_delete} THEN Null ELSE params ]

\* the request description sendRequest hands to buildConfig
Extras(method, endpoint, params) ==
  [ method |-> method,
    url |-> endpoint,
    params |-> IF method = M_get THEN params ELSE Null,
    data |-> IF method = M_get THEN Null ELSE params ]

(***************************************************************************)
(* One dispatch: its arguments, the position of its promise chain          *)
(*   "invalid"   sendRequest returned at the validation                    *)
(*   "pending"   axios(config) is in flight                                *)
(*   "fulfilled" axios resolved; .then(callback) is due                    *)
(*   "rejected"  axios rejected or callback threw in .then; .catch is due  *)
(*   "done"      the chain ended fulfilled                                 *)
(*   "unhandled" callback threw inside the .catch handler                  *)
(* the configs handed to axios, the observable events in order, what the   *)
(* promise of axios settled with, the                                      *)
(* response the chain currently carries (the resolved response, or the     *)
(* response property of the rejection reason), what the public operation   *)
(* returned and whether it threw.                                          *)
(***************************************************************************)
Unsettled == [state |-> "pending", response |-> NoResponse]

Call(method, endpoint, params, callback, pc, axiosCalls, events) ==
  [ method |-> method, endpoint |-> endpoint, params |-> params,
    callback |-> callback, pc |-> pc, axiosCalls |-> axiosCalls,
    events |-> events, settled |-> Unsettled, carried |-> NoResponse,
    origin |-> "none",
    returned |-> Undefined, threw |-> FALSE ]

\* sendRequest reporting a validation failure to the callback as well
sendRequest_CallbackOnInvalid(self, nowMs, method, endpoint, params, callback) ==
  LET v == validateArgs(method, endpoint, params, callback)
  IN  IF ~v.ok
        THEN Call(method, endpoint, params, callback, "invalid", <<>>,
                  v.log \o <<CallbackEvent(NoResponse)>>)
        ELSE Call(method, endpoint, params, callback, "pending",
                  <<buildConfig(self, nowMs, Extras(method, endpoint, params))>>,
                  <<AxiosEvent>>)

\* sendRequest(method, endpoint, params, callback) up to its return
sendRequest(self, nowMs, method, endpoint, params, callback) ==
  LET v == validateArgs(method, endpoint, params, callback)
  IN  IF ~v.ok
        THEN Call(method, endpoint, params, callback, "invalid", <<>>, v.log)
        ELSE Call(method, endpoint, params, callback, "pending",
                  <<buildConfig(self, nowMs, Extras(method, endpoint, params))>>,
                  <<AxiosEvent>>)

\* the promise returned by axios settles
settle(d, outcome) ==
  [d EXCEPT !.pc = outcome.state, !.settled = outcome,
            !.carried = outcome.response,
            !.origin = IF outcome.state = "rejected" THEN "transport" ELSE "none"]

\* thenHandler handing over the parsed body without the status
thenHandler_DataOnly(d, throws) ==
  [d EXCEPT !.events = Append(@, CallbackEvent([d.carried EXCEPT !.status = 0])),
            !.pc = IF throws THEN "rejected" ELSE "done",
            !.carried = IF throws THEN NoResponse ELSE @,
            !.origin = IF throws THEN "callback" ELSE @]

\* .then(callback): callback(response); an exception of callback rejects the
\* chain with an error that has no response property
thenHandler(d, throws) ==
  [d EXCEPT !.events = Append(@, CallbackEvent(d.carried)),
            !.pc = IF throws THEN "rejected" ELSE "done",
            !.carried = IF throws THEN NoResponse ELSE @,
            !.origin = IF throws THEN "callback" ELSE @]

\* catchHandler that logs the failure and leaves the callback alone
catchHandler_LogOnly(d, throws) ==
  [d EXCEPT !.events = Append(@, LogEvent("JSON.stringify(e)", <<>>)),
            !.pc = "done"]

\* catchHandler without the log line
catchHandler_Silent(d, throws) ==
  [d EXCEPT !.events = Append(@, CallbackEvent(d.carried)),
            !.pc = IF throws THEN "unhandled" ELSE "done"]

\* catchHandler sending the request again after a failure of the transport
catchHandler_Retry(d, throws) ==
  IF d.origin = "transport"
    THEN [d EXCEPT !.events = @ \o <<LogEvent("JSON.stringify(e)", <<>>), AxiosEvent>>,
                   !.axiosCalls = Append(@, d.axiosCalls[1]),
                   !.pc = "pending"]
    ELSE [d EXCEPT !.events = @ \o <<LogEvent("JSON.stringify(e)", <<>>),
                                      CallbackEvent(d.carried)>>,
                   !.pc = IF throws THEN "unhandled" ELSE "done"]

\* .catch(function(e) { this.log(JSON.stringify(e)); callback(e.response); })
catchHandler(d, throws) ==
  [d EXCEPT !.events = @ \o <<LogEvent("JSON.stringify(e)", <<>>), CallbackEvent(d.carried)>>,
            !.pc = IF throws THEN "unhandled" ELSE "done"]

(***************************************************************************)
(* The arguments the operations are called with.                           *)
(***************************************************************************)
Methods == {M_get, M_post, M_put, M_delete}

Endpoints == {Str(<<"/", "a">>), Str(<<"a">>), Str(<<>>), Num(5)}

Mapping == Obj(<<[k |-> <<"e">>, v |-> <<"x">>]>>)

ParamValues ==
  { Undefined, Null, Obj(<<>>), Mapping, Arr(<<[k |-> <<>>, v |-> <<"x">>]>>),
    Num(7), Num(0), Str(<<"s">>), Bool(TRUE) }

Callbacks == {Fn, Undefined}

(***************************************************************************)
(* Actions.                                                                *)
(***************************************************************************)
Init ==
  /\ client = Client("key", "s3cret")
  /\ now = 9500
  /\ calls = <<>>

\* Dispatch leaving a trace of the call in the client's fields
Dispatch_TouchesClient(method, endpoint, params, callback) ==
  /\ calls' = Append(calls, sendRequest(client, now, method, endpoint, params, callback))
  /\ client' = [client EXCEPT !.clientVersion = "0.0.2"]
  /\ UNCHANGED now

\* the body shared by the four public operations
Dispatch(method, endpoint, params, callback) ==
  /\ calls' = Append(calls, sendRequest(client, now, method, endpoint, params, callback))
  /\ UNCHANGED <<client, now>>

\* this.get(endpoint, params, callback)
Get(endpoint, params, callback) == Dispatch(M_get, endpoint, params, callback)

\* this.post(endpoint, params, callback)
Post(endpoint, params, callback) == Dispatch(M_post, endpoint, params, callback)

\* this.put(endpoint, params, callback)
Put(endpoint, params, callback) == Dispatch(M_put, endpoint, params, callback)

\* this.delete(endpoint, params, callback)
Delete(endpoint, params, callback) == Dispatch(M_delete, endpoint, params, callback)

\* the transport answers dispatch i
Settle(i, outcome) ==
  /\ calls[i].pc = "pending"
  /\ calls' = [calls EXCEPT ![i] = settle(@, outcome)]
  /\ UNCHANGED <<client, now>>

\* Then handing over the response of the latest dispatch, as if the response
\* were kept in one place shared by all dispatches
Then_SharedResponse(i, throws) ==
  /\ calls[i].pc = "fulfilled"
  /\ calls' = [calls EXCEPT
                 ![i] = thenHandler([@ EXCEPT !.carried = calls[Len(calls)].carried], throws)]
  /\ UNCHANGED <<client, now>>

\* the job of .then(callback) runs for dispatch i
Then(i, throws) ==
  /\ calls[i].pc = "fulfilled"
  /\ calls' = [calls EXCEPT ![i] = thenHandler(@, throws)]
  /\ UNCHANGED <<client, now>>

\* the job of .catch(...) runs for dispatch i
Catch(i, throws) ==
  /\ calls[i].pc = "rejected"
  /\ calls' = [calls EXCEPT ![i] = catchHandler(@, throws)]
  /\ UNCHANGED <<client, now>>

\* half a second passes
Tick ==
  /\ now < 9500 + 500 * MaxTicks
  /\ now' = now + 500
  /\ UNCHANGED <<client, calls>>

Next ==
  \/ \E e \in Endpoints, p \in ParamValues, cb \in Callbacks :
       Len(calls) < MaxCalls /\ Get(e, p, cb)
  \/ \E e \in Endpoints, p \in ParamValues, cb \in Callbacks :
       Len(calls) < MaxCalls /\ Post(e, p, cb)
  \/ \E e \in Endpoints, p \in ParamValues, cb \in Callbacks :
       Len(calls) < MaxCalls /\ Put(e, p, cb)
  \/ \E e \in Endpoints, p \in ParamValues, cb \in Callbacks :
       Len(calls) < MaxCalls /\ Delete(e, p, cb)
  \/ \E i \in 1..Len(calls), o \in Outcomes : Settle(i, o)
  \/ \E i \in 1..Len(calls), throws \in BOOLEAN : Then(i, throws)
  \/ \E i \in 1..Len(calls), throws \in BOOLEAN : Catch(i, throws)
  \/ Tick

Spec == Init /\ [][Next]_vars

\* several dispatches in flight at once on one client, each with a callback
NextConc ==
  \/ \E p \in {Undefined, Mapping} :
       Len(calls) < MaxInFlight /\ Get(Str(<<"/", "a">>), p, Fn)
  \/ \E p \in {Undefined, Mapping} :
       Len(calls) < MaxInFlight /\ Post(Str(<<"/", "a">>), p, Fn)
  \/ \E p \in {Undefined, Mapping} :
       Len(calls) < MaxInFlight /\ Put(Str(<<"/", "a">>), p, Fn)
  \/ \E p \in {Undefined, Mapping} :
       Len(calls) < MaxInFlight /\ Delete(Str(<<"/", "a">>), p, Fn)
  \/ \E i \in 1..Len(calls), o \in Outcomes : Settle(i, o)
  \/ \E i \in 1..Len(calls), throws \in BOOLEAN : Then(i, throws)
  \/ \E i \in 1..Len(calls), throws \in BOOLEAN : Catch(i, throws)

SpecConc == Init /\ [][NextConc]_vars

\* the job queue of the runtime: a handler whose promise has settled is run
ThenJob(i) == i <= Len(calls) /\ \E throws \in BOOLEAN : Then(i, throws)

CatchJob(i) == i <= Len(calls) /\ \E throws \in BOOLEAN : Catch(i, throws)

\* dispatches with a callback, their settlements and their handlers
NextLive ==
  \/ Len(calls) < MaxInFlight /\ Get(Str(<<"/", "a">>), Undefined, Fn)
  \/ Len(calls) < MaxInFlight /\ Post(Str(<<"/", "a">>), Mapping, Fn)
  \/ \E i \in 1..Len(calls), o \in Outcomes : Settle(i, o)
  \/ \E i \in 1..Len(calls), throws \in BOOLEAN : Then(i, throws)
  \/ \E i \in 1..Len(calls), throws \in BOOLEAN : Catch(i, throws)

\* the runtime runs every handler that is due; nothing obliges the transport
\* to answer
SpecLive ==
  /\ Init
  /\ [][NextLive]_vars
  /\ \A i \in 1..MaxInFlight : WF_vars(ThenJob(i)) /\ WF_vars(CatchJob(i))

(***************************************************************************)
(* Vocabulary of the properties.                                           *)
(***************************************************************************)
Dispatched == {calls[i] : i \in 1..Len(calls)}

\* the dispatches that passed the validation
Accepted == {d \in Dispatched : d.pc # "invalid"}

\* the request handed to the transport for an accepted dispatch
Request(d) == d.axiosCalls[1]

\* the method as it appears in the signing string
MethodName(m) ==
  CASE m = M_get -> <<"G", "E", "T">>
    [] m = M_post -> <<"P", "O", "S", "T">>
    [] m = M_put -> <<"P", "U", "T">>
    [] m = M_delete -> <<"D", "E", "L", "E", "T", "E">>

\* the body segment of the signing rule: nothing for GET, else the JSON
\* serialization of params as JSON.stringify gives it inside a string
BodySegment(m, params) ==
  IF m = M_get THEN <<>> ELSE ToStringJs(JSON_stringify(params))

\* hex(HMAC-SHA256(secret, path + timestamp + METHOD + body segment))
RuleSignature(secret, path, timestamp, m, params) ==
  HmacSha256Hex(secret, path \o Decimal(timestamp) \o MethodName(m) \o BodySegment(m, params))

\* a string beginning with '/'
BeginsWithSlash(v) == v.t = "string" /\ Len(v.s) >= 1 /\ v.s[1] = "/"

C2_GetSignsNoBody ==
  \A d \in Accepted :
    d.method = M_get =>
      Request(d).headers.XDigestSignature =
        HmacSha256Hex(client.secret,
          d.endpoint.s \o Decimal(Request(d).headers.XDigestTimestamp) \o <<"G", "E", "T">>)

\* a GET with a non-empty mapping as params was handed to the transport
C2_Witness ==
  \E d \in Accepted :
    /\ d.method = M_get
    /\ d.params = Mapping
    /\ Request(d).params = Mapping
    /\ Request(d).headers.XDigestSignature =
         HmacSha256Hex("s3cret", <<"/", "a", "9", "G", "E", "T">>)

(***************************************************************************)
(* C3: a dispatch whose path is not a string beginning with '/' never      *)
(* reaches the transport, whatever the method.                             *)
(***************************************************************************)
C3_BadPathNotSent ==
  \A d \in Dispatched :
    ~BeginsWithSlash(d.endpoint) =>
      /\ d.axiosCalls = <<>>
      /\ \A k \in 1..Len(d.events) : d.events[k].ev # "axios"

\* a dispatch with a string path lacking the slash, and otherwise valid
\* arguments, was made
C3_Witness ==
  \E d \in Dispatched :
    /\ d.endpoint = Str(<<"a">>)
    /\ d.params = Mapping
    /\ d.callback = Fn
    /\ d.pc = "invalid"

(***************************************************************************)
(* C4: a dispatch whose params is neither null/absent nor a plain          *)
(* key-value mapping (an array, a number, a boolean, a string) never       *)
(* reaches the transport.                                                  *)
(***************************************************************************)
NullOrAbsent(v) == v.t \in {"undefined", "null"}

PlainMapping(v) == v.t = "object"

C4_BadParamsNotSent ==
  \A d \in Dispatched :
    (~NullOrAbsent(d.params) /\ ~PlainMapping(d.params)) => d.axiosCalls = <<>>

(***************************************************************************)
(* C5: the request handed to the transport carries params as query         *)
(* parameters and no body for GET and DELETE, and as body and no query     *)
(* parameters for POST and PUT.                                            *)
(***************************************************************************)
AsQuery(d) == Request(d).params = d.params /\ Request(d).data = Null

AsBody(d) == Request(d).data = d.params /\ Request(d).params = Null

C5_Original ==
  \A d \in Accepted :
    IF d.method \in {M_get, M_delete} THEN AsQuery(d) ELSE AsBody(d)

(***************************************************************************)
(* C5 as amended: params are query parameters (and no body) for GET only,  *)
(* and the request body (and no query parameters) for POST, PUT and        *)
(* DELETE.                                                                 *)
(***************************************************************************)
C5_Amended ==
  \A d \in Accepted :
    IF d.method = M_get THEN AsQuery(d) ELSE AsBody(d)

\* a DELETE with a mapping went out with the mapping as its body
C5_Witness ==
  \E d \in Accepted :
    /\ d.method = M_delete
    /\ d.params = Mapping
    /\ Request(d).data = Mapping
    /\ Request(d).params = Null

(***************************************************************************)
(* C6: when the transport call succeeds, the callback is handed exactly    *)
(* the response the transport produced, and nothing else when the callback *)
(* returns normally.                                                       *)
(***************************************************************************)
C6_SuccessDelivered ==
  \A d \in Accepted :
    (d.settled.state = "fulfilled" /\ d.pc # "fulfilled") =>
      /\ Len(d.events) >= 2
      /\ d.events[2] = CallbackEvent(d.settled.response)
      /\ (d.pc = "done" /\ d.origin = "none") =>
           d.events = <<AxiosEvent, CallbackEvent(d.settled.response)>>

\* a dispatch whose transport answered 200 has handed that response over
C6_Witness ==
  \E d \in Accepted :
    /\ d.settled.state = "fulfilled"
    /\ d.pc = "done"
    /\ d.events = <<AxiosEvent, CallbackEvent(Response(200, "{ok:true}"))>>

(***************************************************************************)
(* C7: when the transport call fails, the client first logs the failure    *)
(* and then hands the callback the response attached to the failure (the   *)
(* 401 response), or no response when there is none; the public operation *)
(* has not thrown.                                                         *)
(***************************************************************************)
C7_FailureDelivered ==
  \A d \in Accepted :
    (d.settled.state = "rejected" /\ d.pc # "rejected") =>
      /\ Len(d.events) = 3
      /\ d.events[1] = AxiosEvent
      /\ d.events[2].ev = "log"
      /\ d.events[3] = CallbackEvent(d.settled.response)
      /\ ~d.threw

\* a dispatch answered 401 has logged and handed over the 401 response
C7_Witness ==
  \E d \in Accepted :
    /\ d.settled = [state |-> "rejected", response |-> Response(401, "{denied}")]
    /\ d.pc = "done"
    /\ d.events[2].ev = "log"
    /\ d.events[3].val.status = 401

(***************************************************************************)
(* C8: a dispatch that fails the validation of its path or of its params   *)
(* leaves one log line and nothing else: no request, no exception, no      *)
(* invocation of the callback, no response returned.                       *)
(***************************************************************************)
C8_InvalidOnlyLogged ==
  \A d \in Dispatched :
    (~validateEndpoint(d.endpoint) \/ ~validateParams(d.params)) =>
      /\ Len(d.events) = 1
      /\ d.events[1].ev = "log"
      /\ d.axiosCalls = <<>>
      /\ ~d.threw
      /\ d.returned = Undefined
      /\ d.settled = Unsettled

\* a dispatch with a callback and a number as params was rejected
C8_Witness ==
  \E d \in Dispatched :
    /\ d.endpoint = Str(<<"/", "a">>)
    /\ d.params = Num(7)
    /\ d.callback = Fn
    /\ d.pc = "invalid"
    /\ d.events = <<LogEvent("Invalid params given to # method.", d.method)>>

(***************************************************************************)
(* C9: get/post/put/delete called with a valid path and valid params and   *)
(* no callback dispatch the request (and return the eventual response).    *)
(***************************************************************************)
C9_DispatchesWithoutCallback ==
  \A d \in Dispatched :
    ( /\ BeginsWithSlash(d.endpoint)
      /\ (NullOrAbsent(d.params) \/ PlainMapping(d.params))
      /\ d.callback = Undefined )
    => Len(d.axiosCalls) = 1

(***************************************************************************)
(* C10: each dispatch causes at most one call of the transport, and a      *)
(* failed call is not issued again.                                        *)
(***************************************************************************)
AxiosEvents(d) == {k \in 1..Len(d.events) : d.events[k].ev = "axios"}

C10_NoRetry ==
  \A d \in Dispatched :
    /\ Len(d.axiosCalls) <= 1
    /\ Cardinality(AxiosEvents(d)) = Len(d.axiosCalls)
    /\ d.settled.state = "rejected" => d.pc # "pending"

\* two dispatches were both answered with a failure and both ran to their end
C10_Witness ==
  /\ Len(calls) >= 2
  /\ \A i \in 1..2 :
       /\ calls[i].settled.state = "rejected"
       /\ calls[i].pc \in {"done", "unhandled"}
       /\ Len(calls[i].axiosCalls) = 1

(***************************************************************************)
(* C11: the secret is never transmitted. Every part of a request handed to *)
(* the transport other than the signature is the API key (in the key       *)
(* header), a fixed text, the timestamp or an argument of the caller; the  *)
(* secret enters only as the key of the HMAC digest in the signature       *)
(* header.                                                                 *)
(***************************************************************************)
C11_SecretNotSent ==
  \A d \in Accepted :
    LET c == Request(d)
        h == c.headers
    IN  /\ DOMAIN c = {"baseURL", "responseType", "responseEncoding", "headers",
                       "method", "url", "params", "data"}
        /\ DOMAIN h = {"UserAgent", "Accept", "XDigestKey", "XDigestSignature",
                       "XDigestTimestamp"}
        /\ c.baseURL = "https://www.coinqvest.com/api/v1/"
        /\ c.responseType = "json"
        /\ c.responseEncoding = "utf8"
        /\ h.UserAgent = "nodejs-merchant-sdk 0.0.1"
        /\ h.Accept = "application/json"
        /\ h.XDigestKey = client.key
        /\ h.XDigestKey # client.secret
        /\ h.XDigestTimestamp \in Nat
        /\ h.XDigestSignature[1] = "hmac-sha256-hex"
        /\ h.XDigestSignature[2] = client.secret
        /\ c.method = d.method
        /\ c.url = d.endpoint
        /\ c.params \in {d.params, Null}
        /\ c.data \in {d.params, Null}

\* a PUT went out with the key in the key header and a digest keyed by the
\* secret in the signature header
C11_Witness ==
  \E d \in Accepted :
    /\ d.method = M_put
    /\ Request(d).headers.XDigestKey = "key"
    /\ Request(d).headers.XDigestSignature[2] = "s3cret"

(***************************************************************************)
(* C12: the client is stateless across calls. Its key, secret, client      *)
(* name, client version and API version stay as constructed whatever has   *)
(* been dispatched, and the request of a dispatch is determined by its     *)
(* arguments, the credentials and the timestamp: two dispatches that agree *)
(* on these hand the same request to the transport, whatever happened to   *)
(* the earlier one.                                                        *)
(***************************************************************************)
C12_Stateless ==
  /\ client = Client("key", "s3cret")
  /\ \A i, j \in 1..Len(calls) :
       ( /\ i < j
         /\ calls[i].pc # "invalid"
         /\ calls[j].pc # "invalid"
         /\ calls[i].method = calls[j].method
         /\ calls[i].endpoint = calls[j].endpoint
         /\ calls[i].params = calls[j].params
         /\ Request(calls[i]).headers.XDigestTimestamp
              = Request(calls[j]).headers.XDigestTimestamp )
       => Request(calls[i]) = Request(calls[j])

\* a dispatch whose transport failed ran to its end, and a later dispatch of
\* the same arguments carries the same request
C12_Witness ==
  /\ Len(calls) >= 2
  /\ calls[1].settled.state = "rejected"
  /\ calls[1].pc = "done"
  /\ calls[2].pc # "invalid"
  /\ calls[2].method = calls[1].method
  /\ calls[2].params = calls[1].params
  /\ Request(calls[2]) = Request(calls[1])

(***************************************************************************)
(* C13: concurrent dispatches are independent. Under every interleaving of *)
(* the transport's answers, the callback of a dispatch is invoked only     *)
(* after the answer to its own request, first with the response of its own *)
(* request, and never with a response that belongs to another dispatch.    *)
(***************************************************************************)
CallbackValues(d) ==
  {d.events[k].val : k \in {n \in 1..Len(d.events) : d.events[n].ev = "callback"}}

C13_OwnResponse ==
  \A i \in 1..Len(calls) :
    LET d == calls[i]
        first == {k \in 1..Len(d.events) :
                    /\ d.events[k].ev = "callback"
                    /\ \A n \in 1..(k - 1) : d.events[n].ev # "callback"}
    IN  /\ d.settled.state = "pending" => CallbackValues(d) = {}
        /\ CallbackValues(d) \subseteq {d.settled.response, NoResponse}
        /\ \A k \in first : d.events[k].val = d.settled.response
        /\ \A j \in 1..Len(calls) :
             (j # i /\ calls[j].settled.response \notin {d.settled.response, NoResponse})
               => calls[j].settled.response \notin CallbackValues(d)

\* the second dispatch was answered and has handed over its response while
\* the first, answered differently, has not yet run its handler
C13_Witness ==
  /\ Len(calls) >= 2
  /\ calls[1].pc = "fulfilled"
  /\ calls[2].pc = "done"
  /\ calls[2].settled.response = Response(401, "{denied}")
  /\ CallbackValues(calls[2]) = {Response(401, "{denied}")}

(***************************************************************************)
(* C14: every request handed to the transport carries the API key, the     *)
(* signature and the timestamp under their header names; the timestamp     *)
(* header is the whole-second clock value that stands, in decimal, between *)
(* the path and the method in the signed text of that request; the         *)
(* caller's fields (method, url, params, data) leave the base URL and the  *)
(* headers as buildConfig set them.                                        *)
(***************************************************************************)
\* the text the signature of a request was computed over
SignedMessage(c) == c.headers.XDigestSignature[3]

C14_HeadersAndTimestamp ==
  \A d \in Accepted :
    LET c == Request(d)
        h == c.headers
        msg == SignedMessage(c)
        p == Len(d.endpoint.s)
        t == Decimal(h.XDigestTimestamp)
        m == MethodName(d.method)
    IN  /\ {"XDigestKey", "XDigestSignature", "XDigestTimestamp"} \subseteq DOMAIN h
        /\ h.XDigestKey = client.key
        /\ h.XDigestSignature[1] = "hmac-sha256-hex"
        /\ h.XDigestTimestamp \in Timestamp(9500)..Timestamp(now)
        /\ Len(msg) >= p + Len(t) + Len(m)
        /\ SubSeq(msg, 1, p) = d.endpoint.s
        /\ SubSeq(msg, p + 1, p + Len(t)) = t
        /\ SubSeq(msg, p + Len(t) + 1, p + Len(t) + Len(m)) = m
        /\ c.baseURL = "https://www.coinqvest.com/api/" \o client.apiVersion \o "/"
        /\ DOMAIN h = {"UserAgent", "Accept", "XDigestKey", "XDigestSignature",
                       "XDigestTimestamp"}
        /\ c.method = d.method
        /\ c.url = d.endpoint

\* a GET dispatched after the clock reached 10 seconds carries 10 in the
\* timestamp header and in the signed text
C14_Witness ==
  \E d \in Accepted :
    /\ d.method = M_get
    /\ Request(d).headers.XDigestTimestamp = 10
    /\ SignedMessage(Request(d)) = <<"/", "a", "1", "0", "G", "E", "T">>

(***************************************************************************)
(* C15: for every accepted dispatch with a method other than GET, what     *)
(* follows path, timestamp and method in the signed text is the JSON       *)
(* serialization of the very value handed to the transport as data, which  *)
(* is params itself: '{"e":"x"}' for the mapping {e: 'x'}, 'null' for      *)
(* null, and the text JSON.stringify leaves in a string for an absent      *)
(* params, 'undefined'.                                                    *)
(***************************************************************************)
\* what follows path, timestamp and method in the signed text of a dispatch
SignedBody(d) ==
  LET msg == SignedMessage(Request(d))
      q == Len(d.endpoint.s) + Len(Decimal(Request(d).headers.XDigestTimestamp))
             + Len(MethodName(d.method))
  IN  SubSeq(msg, q + 1, Len(msg))

CallbackCount(d) == Cardinality({k \in 1..Len(d.events) : d.events[k].ev = "callback"})

C16_CallbackAtMostOnce ==
  \A d \in Accepted : CallbackCount(d) <= 1

(***************************************************************************)
(* C17: every dispatch that passes validation reaches a final state: once  *)
(* the transport has answered it, with a response or with a failure, its   *)
(* callback is eventually invoked and its promise chain comes to an end.   *)
(***************************************************************************)
Answered(i) == i <= Len(calls) /\ calls[i].settled.state # "pending"

Finished(i) ==
  /\ i <= Len(calls)
  /\ calls[i].pc \in {"done", "unhandled"}
  /\ CallbackCount(calls[i]) >= 1

C17_CallbackEventually ==
  \A i \in 1..MaxInFlight : Answered(i) ~> Finished(i)

\* two dispatches were answered, one with a response and one with a failure,
\* and both have invoked their callbacks and ended
C17_Witness ==
  /\ Len(calls) >= 2
  /\ calls[1].settled.state = "fulfilled"
  /\ calls[2].settled.state = "rejected"
  /\ Finished(1)
  /\ Finished(2)

====
